---- MODULE Spec2Model ----
(***************************************************************************)
(* MIDI drum set to keyboard converter (mididrumkeyboard.cpp).             *)
(*                                                                         *)
(* The decode loop of main() is modelled one read() at a time.  Velocity   *)
(* registers, the sentence buffer and the silence counter are the state of *)
(* the stroke engine; C strings are sequences of one-character strings     *)
(* (the terminating NUL is implicit), C array index i is index i+1 here.   *)
(***************************************************************************)
EXTENDS Integers, Sequences, FiniteSets, TLC

\* ------------------------------------------------------------ constants

MIDI_NOTE_ON == 144
MIDI_TICK == 248

STROKE_THRESHOLD == 5
HIT_THRESHOLD == 15
TICK_THRESHOLD == 5

BD == 33
HHO == 46
HHC == 42
CRASH == 49
SNARE == 40
SIDETOM == 48
RIDE == 59
FLOORTOM == 47
HATFOOT == 44

\* unsigned char arithmetic wraps modulo 2^8
UCHAR_MOD == 256

\* The map of drum sequences to X keyboard codes, with its terminator.
map == <<
    [content |-> <<"R", "I", "D", "E", ".">>, keycode |-> "XK_a", modifiers |-> "0"],
    [content |-> <<"R", "I", "D", "E", ".", "R", "I", "D", "E", ".">>, keycode |-> "XK_A", modifiers |-> "ShiftMask"],
    [content |-> <<"B", "D", ",", "S", "N", "A", "R", "E", ".">>, keycode |-> "XK_b", modifiers |-> "0"],
    [content |-> <<"B", "D", ",", "S", "N", "A", "R", "E", ".", "B", "D", ",", "S", "N", "A", "R", "E", ".">>, keycode |-> "XK_B", modifiers |-> "ShiftMask"],
    [content |-> <<"C", "R", "A", "S", "H", ",", "S", "N", "A", "R", "E", ".">>, keycode |-> "XK_c", modifiers |-> "0"],
    [content |-> <<"C", "R", "A", "S", "H", ",", "S", "N", "A", "R", "E", ".", "C", "R", "A", "S", "H", ",", "S", "N", "A", "R", "E", ".">>, keycode |-> "XK_C", modifiers |-> "ShiftMask"],
    [content |-> <<"C", "R", "A", "S", "H", ",", "S", "I", "D", "E", "T", "O", "M", ".">>, keycode |-> "XK_d", modifiers |-> "0"],
    [content |-> <<"C", "R", "A", "S", "H", ",", "S", "I", "D", "E", "T", "O", "M", ".", "C", "R", "A", "S", "H", ",", "S", "I", "D", "E", "T", "O", "M", ".">>, keycode |-> "XK_D", modifiers |-> "ShiftMask"],
    [content |-> <<"S", "N", "A", "R", "E", ".">>, keycode |-> "XK_e", modifiers |-> "0"],
    [content |-> <<"S", "N", "A", "R", "E", ".", "S", "N", "A", "R", "E", ".">>, keycode |-> "XK_E", modifiers |-> "ShiftMask"],
    [content |-> <<"B", "D", ",", "H", "A", "T", "F", "O", "O", "T", ".">>, keycode |-> "XK_f", modifiers |-> "0"],
    [content |-> <<"B", "D", ",", "H", "A", "T", "F", "O", "O", "T", ".", "B", "D", ",", "H", "A", "T", "F", "O", "O", "T", ".">>, keycode |-> "XK_F", modifiers |-> "ShiftMask"],
    [content |-> <<"B", "D", ",", "F", "L", "O", "O", "R", "T", "O", "M", ".">>, keycode |-> "XK_g", modifiers |-> "0"],
    [content |-> <<"B", "D", ",", "F", "L", "O", "O", "R", "T", "O", "M", ".", "B", "D", ",", "F", "L", "O", "O", "R", "T", "O", "M", ".">>, keycode |-> "XK_G", modifiers |-> "ShiftMask"],
    [content |-> <<"S", "N", "A", "R", "E", ",", "S", "I", "D", "E", "T", "O", "M", ".">>, keycode |-> "XK_h", modifiers |-> "0"],
    [content |-> <<"S", "N", "A", "R", "E", ",", "S", "I", "D", "E", "T", "O", "M", ".", "S", "N", "A", "R", "E", ",", "S", "I", "D", "E", "T", "O", "M", ".">>, keycode |-> "XK_H", modifiers |-> "ShiftMask"],
    [content |-> <<"S", "I", "D", "E", "T", "O", "M", ".">>, keycode |-> "XK_i", modifiers |-> "0"],
    [content |-> <<"S", "I", "D", "E", "T", "O", "M", ".", "S", "I", "D", "E", "T", "O", "M", ".">>, keycode |-> "XK_I", modifiers |-> "ShiftMask"],
    [content |-> <<"F", "L", "O", "O", "R", "T", "O", "M", ",", "H", "A", "T", "F", "O", "O", "T", ".">>, keycode |-> "XK_j", modifiers |-> "0"],
    [content |-> <<"F", "L", "O", "O", "R", "T", "O", "M", ",", "H", "A", "T", "F", "O", "O", "T", ".", "F", "L", "O", "O", "R", "T", "O", "M", ",", "H", "A", "T", "F", "O", "O", "T", ".">>, keycode |-> "XK_J", modifiers |-> "ShiftMask"],
    [content |-> <<"H", "H", ",", "F", "L", "O", "O", "R", "T", "O", "M", ".">>, keycode |-> "XK_k", modifiers |-> "0"],
    [content |-> <<"H", "H", ",", "F", "L", "O", "O", "R", "T", "O", "M", ".", "H", "H", ",", "F", "L", "O", "O", "R", "T", "O", "M", ".">>, keycode |-> "XK_K", modifiers |-> "ShiftMask"],
    [content |-> <<"B", "D", ",", "S", "I", "D", "E", "T", "O", "M", ".">>, keycode |-> "XK_l", modifiers |-> "0"],
    [content |-> <<"B", "D", ",", "S", "I", "D", "E", "T", "O", "M", ".", "B", "D", ",", "S", "I", "D", "E", "T", "O", "M", ".">>, keycode |-> "XK_L", modifiers |-> "ShiftMask"],
    [content |-> <<"H", "H", ",", "S", "N", "A", "R", "E", ".">>, keycode |-> "XK_m", modifiers |-> "0"],
    [content |-> <<"H", "H", ",", "S", "N", "A", "R", "E", ".", "H", "H", ",", "S", "N", "A", "R", "E", ".">>, keycode |-> "XK_M", modifiers |-> "ShiftMask"],
    [content |-> <<"F", "L", "O", "O", "R", "T", "O", "M", ".">>, keycode |-> "XK_n", modifiers |-> "0"],
    [content |-> <<"F", "L", "O", "O", "R", "T", "O", "M", ".", "F", "L", "O", "O", "R", "T", "O", "M", ".">>, keycode |-> "XK_N", modifiers |-> "ShiftMask"],
    [content |-> <<"C", "R", "A", "S", "H", ".">>, keycode |-> "XK_o", modifiers |-> "0"],
    [content |-> <<"C", "R", "A", "S", "H", ".", "C", "R", "A", "S", "H", ".">>, keycode |-> "XK_O", modifiers |-> "ShiftMask"],
    [content |-> <<"S", "N", "A", "R", "E", ",", "F", "L", "O", "O", "R", "T", "O", "M", ".">>, keycode |-> "XK_p", modifiers |-> "0"],
    [content |-> <<"S", "N", "A", "R", "E", ",", "F", "L", "O", "O", "R", "T", "O", "M", ".", "S", "N", "A", "R", "E", ",", "F", "L", "O", "O", "R", "T", "O", "M", ".">>, keycode |-> "XK_P", modifiers |-> "ShiftMask"],
    [content |-> <<"B", "D", ",", "S", "N", "A", "R", "E", ",", "H", "A", "T", "F", "O", "O", "T", ".">>, keycode |-> "XK_q", modifiers |-> "0"],
    [content |-> <<"B", "D", ",", "S", "N", "A", "R", "E", ",", "H", "A", "T", "F", "O", "O", "T", ".", "B", "D", ",", "S", "N", "A", "R", "E", ",", "H", "A", "T", "F", "O", "O", "T", ".">>, keycode |-> "XK_Q", modifiers |-> "ShiftMask"],
    [content |-> <<"H", "A", "T", "F", "O", "O", "T", ".">>, keycode |-> "XK_r", modifiers |-> "0"],
    [content |-> <<"H", "A", "T", "F", "O", "O", "T", ".", "H", "A", "T", "F", "O", "O", "T", ".">>, keycode |-> "XK_R", modifiers |-> "ShiftMask"],
    [content |-> <<"C", "R", "A", "S", "H", ",", "R", "I", "D", "E", ".">>, keycode |-> "XK_s", modifiers |-> "0"],
    [content |-> <<"C", "R", "A", "S", "H", ",", "R", "I", "D", "E", ".", "C", "R", "A", "S", "H", ",", "R", "I", "D", "E", ".">>, keycode |-> "XK_S", modifiers |-> "ShiftMask"],
    [content |-> <<"H", "H", ".">>, keycode |-> "XK_t", modifiers |-> "0"],
    [content |-> <<"H", "H", ".", "H", "H", ".">>, keycode |-> "XK_T", modifiers |-> "ShiftMask"],
    [content |-> <<"H", "H", ",", "C", "R", "A", "S", "H", ".">>, keycode |-> "XK_u", modifiers |-> "0"],
    [content |-> <<"H", "H", ",", "C", "R", "A", "S", "H", ".", "H", "H", ",", "C", "R", "A", "S", "H", ".">>, keycode |-> "XK_U", modifiers |-> "ShiftMask"],
    [content |-> <<"B", "D", ",", "C", "R", "A", "S", "H", ",", "R", "I", "D", "E", ".">>, keycode |-> "XK_v", modifiers |-> "0"],
    [content |-> <<"B", "D", ",", "C", "R", "A", "S", "H", ",", "R", "I", "D", "E", ".", "B", "D", ",", "C", "R", "A", "S", "H", ",", "R", "I", "D", "E", ".">>, keycode |-> "XK_V", modifiers |-> "ShiftMask"],
    [content |-> <<"B", "D", ",", "H", "H", ",", "R", "I", "D", "E", ".">>, keycode |-> "XK_w", modifiers |-> "0"],
    [content |-> <<"B", "D", ",", "H", "H", ",", "R", "I", "D", "E", ".", "B", "D", ",", "H", "H", ",", "R", "I", "D", "E", ".">>, keycode |-> "XK_W", modifiers |-> "ShiftMask"],
    [content |-> <<"R", "I", "D", "E", ",", "H", "A", "T", "F", "O", "O", "T", ".">>, keycode |-> "XK_x", modifiers |-> "0"],
    [content |-> <<"R", "I", "D", "E", ",", "H", "A", "T", "F", "O", "O", "T", ".", "R", "I", "D", "E", ",", "H", "A", "T", "F", "O", "O", "T", ".">>, keycode |-> "XK_X", modifiers |-> "ShiftMask"],
    [content |-> <<"B", "D", ",", "S", "N", "A", "R", "E", ",", "F", "L", "O", "O", "R", "T", "O", "M", ".">>, keycode |-> "XK_y", modifiers |-> "0"],
    [content |-> <<"B", "D", ",", "S", "N", "A", "R", "E", ",", "F", "L", "O", "O", "R", "T", "O", "M", ".", "B", "D", ",", "S", "N", "A", "R", "E", ",", "F", "L", "O", "O", "R", "T", "O", "M", ".">>, keycode |-> "XK_Y", modifiers |-> "ShiftMask"],
    [content |-> <<"B", "D", ",", "S", "N", "A", "R", "E", ",", "S", "I", "D", "E", "T", "O", "M", ".">>, keycode |-> "XK_z", modifiers |-> "0"],
    [content |-> <<"B", "D", ",", "S", "N", "A", "R", "E", ",", "S", "I", "D", "E", "T", "O", "M", ".", "B", "D", ",", "S", "N", "A", "R", "E", ",", "S", "I", "D", "E", "T", "O", "M", ".">>, keycode |-> "XK_Z", modifiers |-> "ShiftMask"],
    [content |-> <<"B", "D", ".">>, keycode |-> "XK_space", modifiers |-> "0"],
    [content |-> <<"B", "D", ",", "C", "R", "A", "S", "H", ".">>, keycode |-> "XK_BackSpace", modifiers |-> "0"],
    [content |-> <<"S", "N", "A", "R", "E", ",", "R", "I", "D", "E", ".">>, keycode |-> "XK_period", modifiers |-> "0"],
    [content |-> <<"H", "H", ",", "R", "I", "D", "E", ".">>, keycode |-> "XK_comma", modifiers |-> "0"],
    [content |-> <<"B", "D", ",", "R", "I", "D", "E", ".">>, keycode |-> "XK_exclam", modifiers |-> "ShiftMask"],
    [content |-> <<"S", "I", "D", "E", "T", "O", "M", ",", "R", "I", "D", "E", ".">>, keycode |-> "XK_semicolon", modifiers |-> "0"],
    [content |-> <<"B", "D", ",", "S", "N", "A", "R", "E", ",", "R", "I", "D", "E", ".">>, keycode |-> "XK_Return", modifiers |-> "0"],
    [content |-> <<>>, keycode |-> "0", modifiers |-> "0"]
>>

\* An enumeration of drums by pad ID (not NUL-terminated: exactly 9 bytes).
drums == <<BD, HHO, HHC, CRASH, SNARE, SIDETOM, RIDE, FLOORTOM, HATFOOT>>

\* sizeof(drums)
SizeofDrums == Len(drums)

\* A list of drum names.
drumNames == <<
    <<"B", "D">>,
    <<"H", "H">>,
    <<"H", "H">>,
    <<"C", "R", "A", "S", "H">>,
    <<"S", "N", "A", "R", "E">>,
    <<"S", "I", "D", "E", "T", "O", "M">>,
    <<"R", "I", "D", "E">>,
    <<"F", "L", "O", "O", "R", "T", "O", "M">>,
    <<"H", "A", "T", "F", "O", "O", "T">>
>>

\* ------------------------------------------------------------ C strings

\* The terminating NUL of a C string.
NUL == ""

\* s[i] of a C string: the characters, then the terminator.
CharAt(str, i) == IF i <= Len(str) THEN str[i] ELSE NUL

\* strlen(str): the offset of the first NUL.
strlen(str) == CHOOSE n \in 0..Len(str) : CharAt(str, n + 1) = NUL

\* A comparison that stops at the end of the pattern, as strncmp over
\* strlen(b) characters would.
strcmpPrefix(a, b) ==
    IF \E i \in 1..Len(b) : CharAt(a, i) # CharAt(b, i) THEN 1 ELSE 0

\* strcmp(a, b): 0 when the strings agree at every offset up to and including
\* a's terminator, non-zero otherwise (only == 0 is used).
strcmp(a, b) ==
    IF \E i \in 1..(Len(a) + 1) : CharAt(a, i) # CharAt(b, i) THEN 1 ELSE 0

strcat(dest, src) == dest \o src

RECURSIVE ScanDrums(_, _)
ScanDrums(k, i) ==
    IF i > SizeofDrums THEN 0
    ELSE IF drums[i] = k THEN i
    ELSE ScanDrums(k, i + 1)

\* strchr((char *)drums, key) as the index c - drums + 1, 0 for NULL.  drums
\* holds no NUL, so a byte that is not a pad id is searched for in whatever
\* follows the array: `past` is whether it is met there before a NUL is
\* (the NUL itself matches key 0).  SizeofDrums + 1 stands for any such hit.
strchrDrums(k, past) ==
    LET i == ScanDrums(k, 1)
    IN  IF i # 0 THEN i
        ELSE IF k = 0 \/ past THEN SizeofDrums + 1
        ELSE 0

\* sizeof(buf), and the size of the block handleStroke allocates.
BufSize == 1024

\* ------------------------------------------------------------ functions

createKeyEvent(press, keycode, state) ==
    [type |-> IF press # 0 THEN "KeyPress" ELSE "KeyRelease",
     keycode |-> keycode, state |-> state]

\* The index at which  for (i=0; strlen(map[i].content); i++)  stops:
\* the first entry whose content is empty.
MapEnd == CHOOSE n \in 1..Len(map) :
              /\ strlen(map[n].content) = 0
              /\ \A i \in 1..(n - 1) : strlen(map[i].content) # 0

\* The key down without the key up.
SendKeyDownOnly(e) == <<createKeyEvent(1, e.keycode, e.modifiers)>>

\* The sending part of handleSentence: key down, then key up.
SendKey(e) ==
    <<createKeyEvent(1, e.keycode, e.modifiers),
      createKeyEvent(0, e.keycode, e.modifiers)>>

\* handleSentence(s, display, root): whether a map entry matched (the return
\* value) and the X events sent: those of the first entry, in map order
\* before the terminator, that strcmp finds equal to s.
handleSentence(str) ==
    LET hits == {i \in 1..(MapEnd - 1) : strcmp(str, map[i].content) = 0}
    IN  IF hits = {} THEN [ret |-> FALSE, sent |-> <<>>]
        ELSE [ret |-> TRUE,
              sent |-> SendKey(map[CHOOSE i \in hits : \A j \in hits : i <= j])]

\* Any register that is not 0 goes into the chord.
soundingAny(v) == v > 0

\* Only the registers about to fall below the threshold go into the chord.
soundingDecaying(v) == v >= STROKE_THRESHOLD /\ v \div 2 < STROKE_THRESHOLD

\* velocities[i] >= STROKE_THRESHOLD: the pad goes into the chord.
sounding(v) == v >= STROKE_THRESHOLD

RECURSIVE StrokeLoop(_, _, _, _, _)
StrokeLoop(vel, n, i, strokeBuf, empty) ==
    IF i > n THEN strokeBuf
    ELSE IF sounding(vel[i])
         THEN StrokeLoop(vel, n, i + 1,
                  strcat(IF ~empty THEN strcat(strokeBuf, <<",">>) ELSE strokeBuf,
                         drumNames[i]),
                  FALSE)
    ELSE StrokeLoop(vel, n, i + 1, strokeBuf, empty)

\* handleStroke(velocities, s)
handleStroke(vel, n) == strcat(StrokeLoop(vel, n, 1, <<>>, TRUE), <<".">>)

\* ------------------------------------------------------------ tick handling

\* The registers left as they are.
memsetNothing(vel) == vel

\* memset(velocities, 0, sizeof(drums))
memset(vel) == [i \in DOMAIN vel |-> 0]

\* A chord fires as soon as any register is at or above the threshold.
needsHandlingLoose(vel) ==
    \E i \in 1..SizeofDrums : vel[i] >= STROKE_THRESHOLD

\* A chord fires two below the threshold.
needsHandlingLate(vel) ==
    \E i \in 1..SizeofDrums :
        vel[i] \div 2 < STROKE_THRESHOLD - 2 /\ vel[i] >= STROKE_THRESHOLD - 2

needsHandling(vel) ==
    \E i \in 1..SizeofDrums :
        vel[i] \div 2 < STROKE_THRESHOLD /\ vel[i] >= STROKE_THRESHOLD

\* The counter reset by every chord.
resetTicksAlways(b, ticks) == 0

\* if (buf[0] == 0) ticksSinceStroke = 0;
resetTicks(b, ticks) == IF b = <<>> THEN 0 ELSE ticks

\* Halving that rounds up.
halveCeil(vel) == [i \in 1..SizeofDrums |-> (vel[i] + 1) \div 2]

\* velocities[i] /= 2 for every i
halve(vel) == [i \in 1..SizeofDrums |-> vel[i] \div 2]

\* The timeout two ticks late.
silenceExpiredLate(ticks, b) == ticks > TICK_THRESHOLD + 2 /\ b # <<>>

\* The timeout one tick early.
silenceExpiredEarly(ticks, b) == ticks >= TICK_THRESHOLD /\ b # <<>>

\* ticksSinceStroke++ > TICK_THRESHOLD && buf[0] != 0
silenceExpired(ticks, b) == ticks > TICK_THRESHOLD /\ b # <<>>

\* The body of  if (ch == MIDI_TICK) { ... }  : the engine state after it and
\* what the iteration produced (t: the chord text of handleStroke, s: the
\* sentence handed to handleSentence, sent: X events, err: stderr lines).
Tick(vel, b, ticks) ==
    LET nh == needsHandling(vel)
        ticks1 == IF nh THEN resetTicks(b, ticks) ELSE ticks
        t1 == IF nh THEN handleStroke(vel, SizeofDrums) ELSE <<>>
        b1 == IF nh THEN strcat(b, t1) ELSE b
        vel1 == IF nh THEN memset(vel) ELSE vel
        vel2 == halve(vel1)
        hs == handleSentence(b1)
    IN  IF silenceExpired(ticks1, b1)
        THEN [velocities |-> memset(vel2), buf |-> <<>>, ticksSinceStroke |-> 0,
              t |-> t1, s |-> b1, sent |-> hs.sent,
              err |-> IF hs.ret THEN <<>> ELSE <<b1>>]
        ELSE [velocities |-> vel2, buf |-> b1,
              ticksSinceStroke |-> (ticks1 + 1) % UCHAR_MOD,
              t |-> t1, s |-> <<>>, sent |-> <<>>, err |-> <<>>]

\* Any byte with the top bit set starts a message.
isStatusByte(c) == c >= 128

\* (ch & 0xf0) == MIDI_NOTE_ON
isNoteOn(c) == (c \div 16) * 16 = MIDI_NOTE_ON

\* velocity >= HIT_THRESHOLD && (c = strchr(drums, key))
hitRegistered(v, idx) == v >= HIT_THRESHOLD /\ idx # 0

\* The louder of the old and the new value is kept.
storeLouder(vel, idx, v) == [vel EXCEPT ![idx] = IF v > @ THEN v ELSE @]

\* velocities[c - drums] = velocity;
storeHit(vel, idx, v) == [vel EXCEPT ![idx] = v]

\* ------------------------------------------------------------ state

VARIABLES
    velocities,        \* unsigned char velocities[sizeof(drums)]
    buf,               \* char buf[1024]: the sentence
    ticksSinceStroke,  \* unsigned char
    stop,              \* the quit flag
    ch, key, velocity, \* the bytes last read
    pc,                \* the place of main() in its loop
    eof,               \* the input stream has ended: every read() fails
    t, s, sent, err,   \* what the latest loop iteration produced (see Tick)
    stray,             \* the latest iteration stored through velocities[c - drums] outside the array
    age,               \* per pad: ticks since its latest registered hit, -1 once zeroed
    script,            \* a recorded input stream still to be read (scenario runs)
    entry,             \* the map entry a scenario run plays, 0 otherwise
    solo,              \* the single-strike observation (solo runs), NoSolo otherwise
    started,           \* a read() has been made
    pend,              \* ticks since the tick that appended the sentence's first chord, -1 with no sentence
    over,              \* what the register held that the latest iteration stored a hit in, -1 if none
    twin               \* the engine of a second run fed the same bytes (twin runs), NoTwin otherwise

prog == <<velocities, buf, ticksSinceStroke, stop, ch, key, velocity, pc>>
outs == <<t, s, sent, err, stray, over>>
vars == <<velocities, buf, ticksSinceStroke, stop, ch, key, velocity, pc, eof,
          t, s, sent, err, stray, age, script, entry, solo,
          started, pend, over, twin>>

\* ------------------------------------------------------------ inputs

\* Bytes offered where a status byte is read: the tick, a note-on (channel
\* 10), and a byte of a message the program does not care about.
StatusBytes == {MIDI_TICK, MIDI_NOTE_ON + 9, 0}

\* Bytes offered as pad id: two pads, and the tick byte, which is no pad id.
KeyBytes == {BD, SNARE, MIDI_TICK}

\* Bytes offered as force: just below the hit threshold, and at it.
ForceBytes == {HIT_THRESHOLD - 1, HIT_THRESHOLD}

\* The same with a force that takes the longest to decay: the tick byte.
WideForceBytes == ForceBytes \cup {MIDI_TICK}

\* What the stack may hold in ch, key and velocity before the first read.
UninitBytes == {0, MIDI_TICK}

\* What malloc() may have left in the registers (main never initialises
\* them): zeroes, or a byte below or in the firing range, in the last
\* register or in all of them.
GarbageBytes == {STROKE_THRESHOLD - 1, 2 * STROKE_THRESHOLD - 1}

UninitVelocities ==
    {[i \in 1..SizeofDrums |-> 0]}
    \cup {[i \in 1..SizeofDrums |-> IF i >= from THEN g ELSE 0] :
             from \in {1, SizeofDrums}, g \in GarbageBytes}

\* Ticks counted while no sentence is pending, after which no more are offered.
MaxIdle == 7

NoAge == [i \in 1..SizeofDrums |-> -1]

NoSolo == [pad |-> 0, stage |-> "off", pending |-> FALSE, chords |-> <<>>, lost |-> FALSE]

NoTwin == [velocities |-> <<>>, buf |-> <<>>, ticksSinceStroke |-> 0,
           t |-> <<>>, s |-> <<>>, sent |-> <<>>, err |-> <<>>]

\* ------------------------------------------------------------ initial state

\* main() up to its loop: buf and ticksSinceStroke are set, the registers and
\* the three bytes are not.
Startup ==
    /\ velocities \in UninitVelocities
    /\ buf = <<>>
    /\ ticksSinceStroke = 0
    /\ stop = 0
    /\ ch \in UninitBytes
    /\ key \in UninitBytes
    /\ velocity \in UninitBytes
    /\ pc = "read_ch"
    /\ eof = FALSE
    /\ t = <<>> /\ s = <<>> /\ sent = <<>> /\ err = <<>>
    /\ stray = FALSE
    /\ age = NoAge
    /\ solo = NoSolo
    /\ started = FALSE
    /\ pend = -1
    /\ over = -1

Init ==
    /\ Startup
    /\ script = <<>>
    /\ entry = 0
    /\ twin = NoTwin

\* ------------------------------------------------------------ main loop

\* read(fd, &x, 1): r is <<b>> when byte b arrives, <<>> when the read fails
\* and leaves x as it was.
ReadInto(x, r) == IF r = <<>> THEN x ELSE r[1]

\* do { read(fd, &ch, 1); if (ch == MIDI_TICK) {...} } while (!stop && ...)
ReadCh(r) ==
    /\ pc = "read_ch"
    /\ ch' = ReadInto(ch, r)
    /\ eof' = (eof \/ r = <<>>)
    /\ \E res \in {Tick(velocities, buf, ticksSinceStroke)} :
           IF ch' = MIDI_TICK
           THEN /\ velocities' = res.velocities
                /\ buf' = res.buf
                /\ ticksSinceStroke' = res.ticksSinceStroke
                /\ t' = res.t /\ s' = res.s /\ sent' = res.sent /\ err' = res.err
                /\ age' = IF res.t # <<>> \/ res.s # <<>> THEN NoAge
                          ELSE [i \in 1..SizeofDrums |->
                                   IF age[i] >= 0 THEN age[i] + 1 ELSE age[i]]
                /\ pend' = IF res.s # <<>> THEN -1
                           ELSE IF buf = <<>> THEN (IF res.t # <<>> THEN 0 ELSE -1)
                           ELSE pend + 1
           ELSE /\ UNCHANGED <<velocities, buf, ticksSinceStroke, age, pend>>
                /\ t' = <<>> /\ s' = <<>> /\ sent' = <<>> /\ err' = <<>>
    /\ pc' = IF stop # 0 THEN "exit"
             ELSE IF isNoteOn(ch') THEN "check_stop"
             ELSE "read_ch"
    /\ stray' = FALSE
    /\ over' = -1
    /\ started' = TRUE
    /\ UNCHANGED <<stop, key, velocity>>

\* if (stop) break;
CheckStop ==
    /\ pc = "check_stop"
    /\ pc' = IF stop # 0 THEN "exit" ELSE "read_key"
    /\ UNCHANGED <<velocities, buf, ticksSinceStroke, stop, ch, key, velocity,
                   eof, outs, age, script, entry, solo, started, pend, twin>>

\* The pad id position read as a status position: a tick byte there is
\* processed as a tick.
ReadKeyOrTick(r) ==
    /\ pc = "read_key"
    /\ key' = ReadInto(key, r)
    /\ eof' = (eof \/ r = <<>>)
    /\ pc' = "read_velocity"
    /\ \E res \in {Tick(velocities, buf, ticksSinceStroke)} :
           IF key' = MIDI_TICK
           THEN /\ velocities' = res.velocities
                /\ buf' = res.buf
                /\ ticksSinceStroke' = res.ticksSinceStroke
                /\ t' = res.t /\ s' = res.s /\ sent' = res.sent /\ err' = res.err
           ELSE /\ UNCHANGED <<velocities, buf, ticksSinceStroke>>
                /\ t' = <<>> /\ s' = <<>> /\ sent' = <<>> /\ err' = <<>>
    /\ stray' = FALSE
    /\ over' = -1
    /\ started' = TRUE
    /\ UNCHANGED <<stop, ch, velocity, age, pend>>

\* read(fd, &key, 1);
ReadKey(r) ==
    /\ pc = "read_key"
    /\ key' = ReadInto(key, r)
    /\ eof' = (eof \/ r = <<>>)
    /\ pc' = "read_velocity"
    /\ t' = <<>> /\ s' = <<>> /\ sent' = <<>> /\ err' = <<>>
    /\ stray' = FALSE
    /\ over' = -1
    /\ started' = TRUE
    /\ UNCHANGED <<velocities, buf, ticksSinceStroke, stop, ch, velocity, age, pend>>

\* read(fd, &velocity, 1); if (velocity >= HIT_THRESHOLD && (c = strchr(...)))
\*     velocities[c - drums] = velocity;
ReadVelocity(r, past) ==
    /\ pc = "read_velocity"
    /\ velocity' = ReadInto(velocity, r)
    /\ eof' = (eof \/ r = <<>>)
    /\ LET idx == IF velocity' >= HIT_THRESHOLD THEN strchrDrums(key, past) ELSE 0
       IN  IF hitRegistered(velocity', idx)
           THEN IF idx <= SizeofDrums
                THEN /\ velocities' = storeHit(velocities, idx, velocity')
                     /\ age' = [age EXCEPT ![idx] = 0]
                     /\ stray' = FALSE
                     /\ over' = velocities[idx]
                ELSE /\ stray' = TRUE
                     /\ over' = -1
                     /\ UNCHANGED <<velocities, age>>
           ELSE /\ stray' = FALSE
                /\ over' = -1
                /\ UNCHANGED <<velocities, age>>
    /\ pc' = "read_ch"
    /\ t' = <<>> /\ s' = <<>> /\ sent' = <<>> /\ err' = <<>>
    /\ started' = TRUE
    /\ UNCHANGED <<buf, ticksSinceStroke, stop, ch, key, pend>>

\* sighandler(): SIGINT arrives while main() is in its loop.
sighandler ==
    /\ pc # "exit"
    /\ stop = 0
    /\ stop' = 1
    /\ UNCHANGED <<velocities, buf, ticksSinceStroke, ch, key, velocity, pc, eof,
                   outs, age, script, entry, solo, started, pend, twin>>

\* ------------------------------------------------------------ free run

\* What a read may return: a byte of the alphabet; nothing, once the stream
\* has ended; and, where the run lets the stream end, the end itself.
Arrivals(B, mayEnd) ==
    IF eof THEN {<<>>}
    ELSE {<<b>> : b \in B} \cup (IF mayEnd THEN {<<>>} ELSE {})

\* No sentence is pending, no chord is about to fire, and MaxIdle ticks have
\* been counted already (the count is not read again before it is reset).
IdleLongEnough ==
    /\ buf = <<>>
    /\ ~needsHandling(velocities)
    /\ ticksSinceStroke >= MaxIdle

Status(mayEnd) ==
    /\ \E r \in Arrivals(StatusBytes, mayEnd) :
           /\ ~(r = <<MIDI_TICK>> /\ IdleLongEnough)
           /\ ReadCh(r)
    /\ UNCHANGED <<script, entry, solo, twin>>

PadId(B, mayEnd) ==
    /\ \E r \in Arrivals(B, mayEnd) : ReadKey(r)
    /\ UNCHANGED <<script, entry, solo, twin>>

Force(B, mayEnd) ==
    /\ \E r \in Arrivals(B, mayEnd), past \in BOOLEAN : ReadVelocity(r, past)
    /\ UNCHANGED <<script, entry, solo, twin>>

\* The decode loop fed any stream over the alphabets that never ends, with
\* no signal.
Next ==
    \/ Status(FALSE)
    \/ CheckStop
    \/ PadId(KeyBytes, FALSE)
    \/ Force(ForceBytes, FALSE)

Spec == Init /\ [][Next]_vars

\* The same with the wider force alphabet.
NextWide ==
    \/ Status(FALSE)
    \/ CheckStop
    \/ PadId(KeyBytes, FALSE)
    \/ Force(WideForceBytes, FALSE)

SpecWide == Init /\ [][NextWide]_vars

\* The stream may end at any read.
NextEnd ==
    \/ Status(TRUE)
    \/ CheckStop
    \/ PadId({BD, MIDI_TICK}, TRUE)
    \/ Force(ForceBytes, TRUE)

SpecEnd == Init /\ [][NextEnd]_vars

\* SIGINT may arrive at any point of the loop.
NextStop ==
    \/ Status(FALSE)
    \/ CheckStop
    \/ PadId({BD, MIDI_TICK}, FALSE)
    \/ Force(ForceBytes, FALSE)
    \/ sighandler

SpecStop == Init /\ [][NextStop]_vars

\* ------------------------------------------------------------ quiet runs

\* A force byte that makes no registered hit with the pad id just read:
\* below the hit threshold, or for a byte that is no pad id.
QuietForce ==
    /\ \E r \in Arrivals(WideForceBytes, FALSE), past \in BOOLEAN :
           /\ r[1] < HIT_THRESHOLD \/ ScanDrums(key, 1) = 0
           /\ ReadVelocity(r, past)
    /\ UNCHANGED <<script, entry, solo, twin>>

\* Streams of ticks, skipped bytes and notes that register no hit.
NextQuiet ==
    \/ Status(FALSE)
    \/ CheckStop
    \/ PadId(KeyBytes, FALSE)
    \/ QuietForce

SpecQuiet == Init /\ [][NextQuiet]_vars

\* ------------------------------------------------------------ solo runs

\* Forces of the observed single strike: the weakest registered, the strongest
\* a MIDI data byte can carry.
SoloForces == {HIT_THRESHOLD, 127}

\* The pad id of the observed strike arrives: any of the nine pads.
SoloKey ==
    /\ solo.stage = "off"
    /\ \E p \in 1..SizeofDrums :
           /\ ReadKey(<<drums[p]>>)
           /\ solo' = [solo EXCEPT !.pad = p, !.stage = "key"]
    /\ UNCHANGED <<script, entry, twin>>

\* Its force arrives while no other pad's register is at or above the
\* stroke threshold.
SoloForce ==
    /\ solo.stage = "key"
    /\ \A q \in 1..SizeofDrums : q # solo.pad => velocities[q] < STROKE_THRESHOLD
    /\ \E f \in SoloForces : ReadVelocity(<<f>>, FALSE)
    /\ solo' = [solo EXCEPT !.stage = "on", !.pending = (buf # <<>>)]
    /\ UNCHANGED <<script, entry, twin>>

\* From then on only ticks arrive; the chords appended are recorded, and
\* whether a flush came before any of them.
SoloTick ==
    /\ solo.stage = "on"
    /\ ~IdleLongEnough
    /\ ReadCh(<<MIDI_TICK>>)
    /\ solo' = [solo EXCEPT
                   !.chords = IF t' # <<>> THEN Append(@, t') ELSE @,
                   !.lost = @ \/ (s' # <<>> /\ t' = <<>> /\ solo.chords = <<>>)]
    /\ UNCHANGED <<script, entry, twin>>

NextSolo ==
    \/ (solo.stage = "off" /\ Status(FALSE))
    \/ CheckStop
    \/ (solo.stage = "off" /\ PadId(KeyBytes, FALSE))
    \/ (solo.stage = "off" /\ Force(ForceBytes, FALSE))
    \/ SoloKey
    \/ SoloForce
    \/ SoloTick

SpecSolo == Init /\ [][NextSolo]_vars

\* ------------------------------------------------------------ scenario runs

\* For each map entry, the pads of each of its chords (HH as the open hi-hat).
entryPads == <<
    <<{7}>>,
    <<{7}, {7}>>,
    <<{1, 5}>>,
    <<{1, 5}, {1, 5}>>,
    <<{4, 5}>>,
    <<{4, 5}, {4, 5}>>,
    <<{4, 6}>>,
    <<{4, 6}, {4, 6}>>,
    <<{5}>>,
    <<{5}, {5}>>,
    <<{1, 9}>>,
    <<{1, 9}, {1, 9}>>,
    <<{1, 8}>>,
    <<{1, 8}, {1, 8}>>,
    <<{5, 6}>>,
    <<{5, 6}, {5, 6}>>,
    <<{6}>>,
    <<{6}, {6}>>,
    <<{8, 9}>>,
    <<{8, 9}, {8, 9}>>,
    <<{2, 8}>>,
    <<{2, 8}, {2, 8}>>,
    <<{1, 6}>>,
    <<{1, 6}, {1, 6}>>,
    <<{2, 5}>>,
    <<{2, 5}, {2, 5}>>,
    <<{8}>>,
    <<{8}, {8}>>,
    <<{4}>>,
    <<{4}, {4}>>,
    <<{5, 8}>>,
    <<{5, 8}, {5, 8}>>,
    <<{1, 5, 9}>>,
    <<{1, 5, 9}, {1, 5, 9}>>,
    <<{9}>>,
    <<{9}, {9}>>,
    <<{4, 7}>>,
    <<{4, 7}, {4, 7}>>,
    <<{2}>>,
    <<{2}, {2}>>,
    <<{2, 4}>>,
    <<{2, 4}, {2, 4}>>,
    <<{1, 4, 7}>>,
    <<{1, 4, 7}, {1, 4, 7}>>,
    <<{1, 2, 7}>>,
    <<{1, 2, 7}, {1, 2, 7}>>,
    <<{7, 9}>>,
    <<{7, 9}, {7, 9}>>,
    <<{1, 5, 8}>>,
    <<{1, 5, 8}, {1, 5, 8}>>,
    <<{1, 5, 6}>>,
    <<{1, 5, 6}, {1, 5, 6}>>,
    <<{1}>>,
    <<{1, 4}>>,
    <<{5, 7}>>,
    <<{2, 7}>>,
    <<{1, 7}>>,
    <<{6, 7}>>,
    <<{1, 5, 7}>>
>>

Ticks(n) == [i \in 1..n |-> MIDI_TICK]

\* The note-on messages of the pads of S, highest pad index first.
RECURSIVE Strike(_)
Strike(S) ==
    IF S = {} THEN <<>>
    ELSE LET p == CHOOSE x \in S : \A y \in S : y <= x
         IN  <<MIDI_NOTE_ON + 9, drums[p], HIT_THRESHOLD>> \o Strike(S \ {p})

RECURSIVE Strikes(_)
Strikes(chords) ==
    IF chords = <<>> THEN <<>>
    ELSE Strike(Head(chords)) \o Ticks(2) \o Strikes(Tail(chords))

\* A stream that plays entry e: ticks until whatever the registers held at
\* startup has fired and been flushed, each chord struck and given the two
\* ticks it takes to fire, and ticks until the silence timeout, which runs
\* from the first chord.
StreamFor(e) ==
    Ticks(TICK_THRESHOLD + 2)
    \o Strikes(entryPads[e])
    \o Ticks(TICK_THRESHOLD + 1 - 2 * (Len(entryPads[e]) - 1))

InitScenario ==
    /\ Startup
    /\ entry \in 1..(MapEnd - 1)
    /\ script = StreamFor(entry)
    /\ twin = NoTwin

ScriptStatus ==
    /\ script # <<>>
    /\ ReadCh(<<Head(script)>>)
    /\ script' = Tail(script)
    /\ UNCHANGED <<entry, solo, twin>>

ScriptPadId ==
    /\ script # <<>>
    /\ ReadKey(<<Head(script)>>)
    /\ script' = Tail(script)
    /\ UNCHANGED <<entry, solo, twin>>

ScriptForce ==
    /\ script # <<>>
    /\ ReadVelocity(<<Head(script)>>, FALSE)
    /\ script' = Tail(script)
    /\ UNCHANGED <<entry, solo, twin>>

NextScenario ==
    \/ ScriptStatus
    \/ CheckStop
    \/ ScriptPadId
    \/ ScriptForce

SpecScenario == InitScenario /\ [][NextScenario]_vars

\* ------------------------------------------------------------ lookup runs

\* The chord texts of the one-chord map entries, and one the map lacks.
OneChord ==
    {map[i].content : i \in {j \in 1..(MapEnd - 1) : Len(entryPads[j]) = 1}}
    \cup {drumNames[2] \o <<",">> \o drumNames[3] \o <<".">>}

\* Sentences awaiting their flush: every map pattern, and every map pattern
\* or single chord followed by one more chord.
Pending ==
    {map[i].content : i \in 1..(MapEnd - 1)}
    \cup OneChord
    \cup {map[i].content \o c : i \in 1..(MapEnd - 1), c \in OneChord}
    \cup {c \o d : c \in OneChord, d \in OneChord}

\* The loop just before the tick that flushes a pending sentence.
InitLookup ==
    /\ velocities = [i \in 1..SizeofDrums |-> 0]
    /\ buf \in Pending
    /\ ticksSinceStroke = TICK_THRESHOLD + 1
    /\ stop = 0
    /\ ch = MIDI_TICK
    /\ key \in {BD, RIDE}
    /\ velocity = HIT_THRESHOLD
    /\ pc = "read_ch"
    /\ eof = FALSE
    /\ t = <<>> /\ s = <<>> /\ sent = <<>> /\ err = <<>>
    /\ stray = FALSE
    /\ age = NoAge
    /\ script = <<>>
    /\ entry = 0
    /\ solo = NoSolo
    /\ started = TRUE
    /\ pend = TICK_THRESHOLD
    /\ over = -1
    /\ twin = NoTwin

\* The flushing tick.
FlushTick ==
    /\ buf # <<>>
    /\ ReadCh(<<MIDI_TICK>>)
    /\ UNCHANGED <<script, entry, solo, twin>>

NextLookup == FlushTick

SpecLookup == InitLookup /\ [][NextLookup]_vars

\* ------------------------------------------------------------ twin runs

\* A second run of the program is fed the same bytes.  Its place in the loop
\* and its ch, key and velocity are those of the first run, being set by the
\* bytes read alone; its registers, sentence and counter are its own, and so
\* is what malloc() left in its registers.
InitTwin ==
    /\ Startup
    /\ script = <<>>
    /\ entry = 0
    /\ twin \in {[NoTwin EXCEPT !.velocities = v] : v \in UninitVelocities}

TwinIdleLongEnough ==
    /\ twin.buf = <<>>
    /\ ~needsHandling(twin.velocities)
    /\ twin.ticksSinceStroke >= MaxIdle

\* The do-while iteration of both runs on the same status byte.
TwinStatus ==
    /\ \E r \in Arrivals(StatusBytes, FALSE) :
           /\ ~(r = <<MIDI_TICK>> /\ IdleLongEnough /\ TwinIdleLongEnough)
           /\ ReadCh(r)
           /\ twin' = IF r = <<MIDI_TICK>>
                      THEN Tick(twin.velocities, twin.buf, twin.ticksSinceStroke)
                      ELSE [twin EXCEPT !.t = <<>>, !.s = <<>>, !.sent = <<>>, !.err = <<>>]
    /\ UNCHANGED <<script, entry, solo>>

\* Both runs read the same pad id.
TwinPadId ==
    /\ \E r \in Arrivals({BD, MIDI_TICK}, FALSE) : ReadKey(r)
    /\ twin' = [twin EXCEPT !.t = <<>>, !.s = <<>>, !.sent = <<>>, !.err = <<>>]
    /\ UNCHANGED <<script, entry, solo>>

\* Both runs read the same force and store it alike.
TwinForce ==
    /\ \E r \in Arrivals(ForceBytes, FALSE), past \in BOOLEAN :
           /\ ReadVelocity(r, past)
           /\ LET idx == IF r[1] >= HIT_THRESHOLD THEN strchrDrums(key, past) ELSE 0
              IN  twin' = IF hitRegistered(r[1], idx) /\ idx <= SizeofDrums
                          THEN [twin EXCEPT !.velocities = storeHit(@, idx, r[1])]
                          ELSE twin
    /\ UNCHANGED <<script, entry, solo>>

NextTwin ==
    \/ TwinStatus
    \/ CheckStop
    \/ TwinPadId
    \/ TwinForce

SpecTwin == InitTwin /\ [][NextTwin]_vars

\* ------------------------------------------------------------ byte runs

\* Status positions also see a note-off (channel 10) and active sensing.
AnyStatusBytes == StatusBytes \cup {MIDI_NOTE_ON - 16 + 9, MIDI_TICK + 6}

\* Pad id and force positions also see the tick byte and a note-on byte.
AnyKeyBytes == {BD, MIDI_TICK, MIDI_NOTE_ON + 9}

AnyForceBytes == {HIT_THRESHOLD, MIDI_TICK, MIDI_NOTE_ON + 9}

AnyStatus ==
    /\ \E r \in Arrivals(AnyStatusBytes, FALSE) :
           /\ ~(r = <<MIDI_TICK>> /\ IdleLongEnough)
           /\ ReadCh(r)
    /\ UNCHANGED <<script, entry, solo, twin>>

NextBytes ==
    \/ AnyStatus
    \/ CheckStop
    \/ PadId(AnyKeyBytes, FALSE)
    \/ Force(AnyForceBytes, FALSE)

SpecBytes == Init /\ [][NextBytes]_vars

\* ------------------------------------------------------------ zeroed runs

\* The program as it would start had main() zeroed the registers.
InitZero ==
    /\ Init
    /\ velocities = [i \in 1..SizeofDrums |-> 0]

\* Forces at the hit threshold, around the value whose half is twice the
\* stroke threshold, and the largest offered.
ZeroForceBytes ==
    {HIT_THRESHOLD, 4 * STROKE_THRESHOLD - 1, 4 * STROKE_THRESHOLD, MIDI_TICK}

NextZero ==
    \/ Status(FALSE)
    \/ CheckStop
    \/ PadId({BD, SNARE}, FALSE)
    \/ Force(ZeroForceBytes, FALSE)

SpecZero == InitZero /\ [][NextZero]_vars

\* ------------------------------------------------------------ claims

\* The key down / key up pair for map entry i, as the claims describe it.
PressRelease(i) ==
    <<[type |-> "KeyPress", keycode |-> map[i].keycode, state |-> map[i].modifiers],
      [type |-> "KeyRelease", keycode |-> map[i].keycode, state |-> map[i].modifiers]>>

\* C2 (as claimed): the silence counter is reset by every appended chord: a
\* tick that appends a chord leaves the counter at 1 (reset to 0, then counted)
\* and never flushes the sentence in the same tick, since no tick has passed
\* since that chord.
C2_ResetOnEveryChord == t # <<>> => (ticksSinceStroke = 1 /\ s = <<>>)

\* C5: every flush gives exactly one of two outcomes: the key press and key
\* release of the entry equal to the sentence and no diagnostic, or one
\* diagnostic carrying the sentence and no key event; an iteration that does
\* not flush sends no key event and prints no diagnostic.
C5_FlushOutcome ==
    /\ s # <<>> =>
          LET hits == {i \in 1..Len(map) : map[i].content = s}
          IN  IF hits # {}
              THEN (\E i \in hits : sent = PressRelease(i)) /\ err = <<>>
              ELSE sent = <<>> /\ err = <<s>>
    /\ s = <<>> => (sent = <<>> /\ err = <<>>)

\* A flush that matched: two key events were sent.
C5_Witness == s # <<>> /\ Len(sent) = 2

C9_StopsAtEndOfStream ==
    [][eof =>
          /\ velocities' = velocities
          /\ buf' = buf
          /\ ticksSinceStroke' = ticksSinceStroke
          /\ t' = <<>> /\ s' = <<>> /\ sent' = <<>> /\ err' = <<>>]_vars

\* C10 (as claimed): once the quit flag is set, no further input byte is
\* processed as a tick or a note, and the pending sentence is dropped without
\* lookup, key event or diagnostic.
C10_StopObservedAfterEveryRead ==
    [][stop # 0 =>
          /\ velocities' = velocities
          /\ buf' = buf
          /\ ticksSinceStroke' = ticksSinceStroke
          /\ t' = <<>> /\ s' = <<>> /\ sent' = <<>> /\ err' = <<>>]_vars

\* The chord text of the pads of S as the claims describe it: their names in
\* pad enumeration order, joined by commas, ended by a period.
RECURSIVE RenderFrom(_, _)
RenderFrom(S, i) ==
    IF i > SizeofDrums THEN <<".">>
    ELSE IF i \in S
         THEN (IF \E j \in S : j < i THEN <<",">> ELSE <<>>)
              \o drumNames[i] \o RenderFrom(S, i + 1)
    ELSE RenderFrom(S, i + 1)

Render(S) == RenderFrom(S, 1)

\* C1 (as claimed): once the observed strike is over (its register is back
\* at 0), exactly one chord has been appended, holding the pad's name alone.
C1_ExactlyOneChord ==
    (solo.stage = "on" /\ velocities[solo.pad] = 0) =>
        solo.chords = <<Render({solo.pad})>>

\* C1 (amended): the observed strike appends at most one chord, holding the
\* pad's name alone; once the strike is over exactly one chord has been
\* appended, unless a sentence was pending and its flush came first, zeroing
\* the register: then none has.
C1_OneChordUnlessFlushed ==
    solo.stage = "on" =>
        /\ Len(solo.chords) <= 1
        /\ \A k \in 1..Len(solo.chords) : solo.chords[k] = Render({solo.pad})
        /\ velocities[solo.pad] = 0 =>
               IF solo.lost THEN solo.chords = <<>> ELSE Len(solo.chords) = 1
        /\ solo.lost => solo.pending

\* The strike met a pending sentence and its chord was appended to it.
C1_Witness ==
    /\ solo.stage = "on"
    /\ solo.pending
    /\ solo.chords = <<Render({solo.pad})>>
    /\ velocities[solo.pad] = 0

\* C3: when a chord is appended while two distinct pads carry hits registered
\* between the same two ticks, its text names both, in pad enumeration order.
C3_SameWindowSameChord ==
    [][t' # <<>> =>
          \A p, q \in 1..SizeofDrums :
              (p # q /\ age[p] >= 0 /\ age[p] = age[q]) =>
                  \E R \in SUBSET (1..SizeofDrums) : t' = Render(R \cup {p, q})]_vars

\* SNARE, then BD with another force, and the chord reads BD,SNARE.
C3_Witness ==
    /\ t = Render({1, 5})
    /\ key = BD
    /\ velocity = MIDI_TICK
    /\ buf = t

\* C4: the flush selects the first map entry whose pattern equals the
\* sentence, fails exactly when none is equal, and never selects an entry
\* whose pattern differs from the sentence in length.
C4_ExactMatch ==
    s # <<>> =>
        /\ (sent # <<>>) <=> (\E i \in 1..(Len(map) - 1) : map[i].content = s)
        /\ (err = <<s>>) <=> (\A i \in 1..(Len(map) - 1) : map[i].content # s)
        /\ \A i \in 1..(Len(map) - 1) :
               /\ (map[i].content = s /\ \A j \in 1..(i - 1) : map[j].content # s)
                      => sent = PressRelease(i)
               /\ Len(map[i].content) # Len(s) => sent # PressRelease(i)

\* RIDE.RIDE. was flushed and gave A with shift, not the a of RIDE.
C4_Witness ==
    /\ s = Render({7}) \o Render({7})
    /\ sent = PressRelease(2)
    /\ sent # PressRelease(1)

\* C6: for every map entry, the stream StreamFor plays for it ends with the
\* flush of exactly that entry's pattern and the press and release of that
\* entry's key and modifiers.
C6_EveryEntryPlayable ==
    (entry # 0 /\ script = <<>> /\ pc = "read_ch") =>
        /\ s = map[entry].content
        /\ sent = PressRelease(entry)
        /\ err = <<>>

\* Two RIDE strikes accumulated into RIDE.RIDE. and gave A with shift.
C6_Witness ==
    /\ entry = 2
    /\ script = <<>>
    /\ s = Render({7}) \o Render({7})
    /\ sent = PressRelease(2)

\* C8 (as claimed): a stream of ticks and of notes that are below the hit
\* threshold or name no pad never appends a chord, keeps the sentence empty
\* and never produces a key event or a diagnostic.
C8_QuietStreamDoesNothing ==
    /\ buf = <<>>
    /\ t = <<>> /\ s = <<>> /\ sent = <<>> /\ err = <<>>

\* C11 (as claimed): two runs fed the identical byte stream produce the same
\* chords, the same flushed sentences, the same key events and the same
\* diagnostics at every iteration.
C11_SameBytesSameOutputs ==
    /\ twin.t = t
    /\ twin.s = s
    /\ twin.sent = sent
    /\ twin.err = err

\* C12 (as claimed): before the first byte is read every velocity register
\* is 0, the sentence is empty and the silence counter is 0.
C12_ZeroAtStartup ==
    ~started =>
        /\ \A i \in 1..SizeofDrums : velocities[i] = 0
        /\ buf = <<>>
        /\ ticksSinceStroke = 0

\* C13: every register is within 0..255 before and after every step; a tick
\* leaves each register at half its value rounded down, or at 0; a register
\* changes otherwise only by a note for its pad, which sets it to the force
\* read, and it never grows in any other way.
C13_RegistersOnlyDecay ==
    [][\A i \in 1..SizeofDrums :
          /\ velocities[i] \in 0..(UCHAR_MOD - 1)
          /\ velocities'[i] \in 0..(UCHAR_MOD - 1)
          /\ (pc = "read_ch" /\ ch' = MIDI_TICK) =>
                 velocities'[i] \in {velocities[i] \div 2, 0}
          /\ (pc = "read_ch" /\ ch' # MIDI_TICK) => velocities'[i] = velocities[i]
          /\ velocities'[i] # velocities[i] =>
                 \/ pc = "read_ch"
                 \/ pc = "read_velocity" /\ key = drums[i] /\ velocities'[i] = velocity'
          /\ velocities'[i] > velocities[i] => pc = "read_velocity"]_vars

\* The strongest hit on BD has been halved by two ticks.
C13_Witness ==
    /\ age[1] = 2
    /\ velocities[1] = MIDI_TICK \div 4
    /\ ch = MIDI_TICK

\* C14: a tick appends a chord exactly when some register is at or above
\* STROKE_THRESHOLD with its half below it; the chord names exactly the pads
\* whose register is at or above STROKE_THRESHOLD, at least one, in pad
\* enumeration order, comma-joined and ended by a period; it is appended to
\* the sentence, and afterwards every register is 0.
C14_ChordIffDecaying ==
    [][(pc = "read_ch" /\ ch' = MIDI_TICK) =>
          LET firing == {i \in 1..SizeofDrums :
                            /\ velocities[i] >= STROKE_THRESHOLD
                            /\ velocities[i] \div 2 < STROKE_THRESHOLD}
              listed == {i \in 1..SizeofDrums : velocities[i] >= STROKE_THRESHOLD}
          IN  /\ (t' # <<>>) <=> (firing # {})
              /\ t' # <<>> =>
                     /\ listed # {}
                     /\ t' = Render(listed)
                     /\ buf' = buf \o t' \/ s' = buf \o t'
                     /\ \A i \in 1..SizeofDrums : velocities'[i] = 0]_vars

\* BD. is pending and a chord of BD, not yet decaying, and SNARE joined it.
C14_Witness ==
    /\ t = Render({1, 5})
    /\ buf = Render({1}) \o Render({1, 5})
    /\ velocity = MIDI_TICK
    /\ key = BD
    /\ \A i \in 1..SizeofDrums : velocities[i] = 0

\* C15: the force byte of a note for a known pad, at or above HIT_THRESHOLD,
\* sets that pad's register to the force, whatever it held, and leaves every
\* other register, the sentence and the silence counter as they were.
C15_NoteOverwrites ==
    [][(pc = "read_velocity" /\ velocity' >= HIT_THRESHOLD
            /\ \E i \in 1..SizeofDrums : drums[i] = key) =>
          /\ \A i \in 1..SizeofDrums :
                 velocities'[i] = IF drums[i] = key THEN velocity' ELSE velocities[i]
          /\ buf' = buf
          /\ ticksSinceStroke' = ticksSinceStroke]_vars

\* A hit on BD at HIT_THRESHOLD replaced a larger value in its register.
C15_Witness ==
    /\ pc = "read_ch"
    /\ key = BD
    /\ velocity = HIT_THRESHOLD
    /\ over > velocity
    /\ velocities[1] = velocity

\* C16: a byte read at a status position that is neither the tick byte nor
\* has the note-on high nibble changes no register, not the sentence and not
\* the silence counter, produces nothing, and the next byte is read at a
\* status position again.
C16_OtherBytesSkipped ==
    [][(pc = "read_ch" /\ ch' # MIDI_TICK /\ ch' \div 16 # MIDI_NOTE_ON \div 16) =>
          /\ velocities' = velocities
          /\ buf' = buf
          /\ ticksSinceStroke' = ticksSinceStroke
          /\ t' = <<>> /\ s' = <<>> /\ sent' = <<>> /\ err' = <<>>
          /\ pc' = "read_ch"]_vars

\* A note-off byte was skipped while a sentence was pending and BD ringing.
C16_Witness ==
    /\ ch = MIDI_NOTE_ON - 16 + 9
    /\ pc = "read_ch"
    /\ buf # <<>>
    /\ velocities[1] >= STROKE_THRESHOLD

\* C17: after a note-on byte the next byte is taken as pad id and the one
\* after it as force, whatever they are: neither read processes a tick or
\* produces anything, the first changes no register, the second changes at
\* most the register of the pad the first named, and the byte after them is
\* read at a status position.
C17_NoteTakesTwoBytes ==
    [][/\ pc = "check_stop" => pc' = "read_key"
       /\ pc = "read_key" =>
              /\ pc' = "read_velocity"
              /\ velocities' = velocities
       /\ pc = "read_velocity" =>
              /\ pc' = "read_ch"
              /\ \A i \in 1..SizeofDrums :
                     velocities'[i] # velocities[i] =>
                         (drums[i] = key /\ velocities'[i] = velocity')
       /\ pc \in {"check_stop", "read_key", "read_velocity"} =>
              /\ buf' = buf
              /\ ticksSinceStroke' = ticksSinceStroke
              /\ t' = <<>> /\ s' = <<>> /\ sent' = <<>> /\ err' = <<>>]_vars

\* A note whose pad id was the tick byte and whose force was a note-on byte
\* has been read while a sentence was pending, and the sentence still is.
C17_Witness ==
    /\ pc = "read_ch"
    /\ ch = MIDI_NOTE_ON + 9
    /\ key = MIDI_TICK
    /\ velocity = MIDI_NOTE_ON + 9
    /\ buf # <<>>
    /\ pend = 2

\* The number of chords of a sentence: its periods.
NumChords(str) == Cardinality({i \in 1..Len(str) : str[i] = "."})

\* C18: a sentence is pending exactly from the tick that appends its first
\* chord, and while it is pending at most TICK_THRESHOLD ticks have followed
\* that tick: the next tick after those flushes it, whatever chords were
\* appended in between.
C18_FlushWithinSixTicks ==
    /\ (buf = <<>>) <=> (pend = -1)
    /\ buf # <<>> => pend \in 0..TICK_THRESHOLD

\* Three chords are pending and TICK_THRESHOLD ticks have followed the first.
C18_Witness ==
    /\ pend = TICK_THRESHOLD
    /\ NumChords(buf) = 3

\* C19: the sentence, pending or handed to the lookup, never holds more than
\* 4 chords, no chord text is longer than 51 characters, and the sentence and
\* the chord text with their terminator fit the 1024 bytes of their buffers.
C19_BufferNeverOverflows ==
    /\ NumChords(buf) <= 4
    /\ NumChords(s) <= 4
    /\ Len(t) <= 51
    /\ Len(buf) < BufSize
    /\ Len(s) < BufSize
    /\ Len(t) < BufSize

\* A sentence of four chords was flushed.
C19_Witness ==
    /\ NumChords(s) = 4
    /\ t # <<>>
    /\ buf = <<>>

\* C20: with the registers zeroed at startup, every register is 0 or at least
\* STROKE_THRESHOLD in every state; a register is not 0 exactly while a hit
\* registered in it has not been zeroed by a chord or a flush; such a hit
\* waits at most 5 ticks; and a chord names every pad with such a hit.
C20_NeverBelowThreshold ==
    [][/\ \A i \in 1..SizeofDrums :
              /\ velocities[i] = 0 \/ velocities[i] >= STROKE_THRESHOLD
              /\ velocities'[i] = 0 \/ velocities'[i] >= STROKE_THRESHOLD
              /\ (age'[i] >= 0) <=> (velocities'[i] > 0)
              /\ age'[i] <= 5
       /\ t' # <<>> => t' = Render({i \in 1..SizeofDrums : age[i] >= 0})]_vars

\* The strongest hit on BD has waited 5 ticks and is in the firing range.
C20_Witness ==
    /\ age[1] = 5
    /\ velocities[1] \in STROKE_THRESHOLD..(2 * STROKE_THRESHOLD - 1)
    /\ age[5] = 0

====
